---- MODULE Spec2Model ----
(***************************************************************************)
(* A model of src/parser.py: the page pipeline (find_main_content,         *)
(* extract_content, extract_links, find_next_page) and the pagination walk *)
(* of parse_url.                                                           *)
(*                                                                         *)
(* Representation.                                                         *)
(*   - A text is a sequence of one-character strings, so that lower(),     *)
(*     strip(), isdigit(), substring tests and the regular expressions of  *)
(*     the source are computed character by character.                     *)
(*   - A URL is the 5-tuple of urllib.parse (scheme, netloc, path, query,  *)
(*     fragment); the path is the list path.split('/'), the query is the   *)
(*     number N of "page=N" or NoQuery.                                    *)
(*   - A document (soup) is the sequence, in document order, of its        *)
(*     elements; each element records the ancestors the source looks at:   *)
(*     whether it lies in a nav/header/footer/aside region, which          *)
(*     candidate main container holds it, and which <ul> holds it.         *)
(***************************************************************************)
EXTENDS Integers, Sequences, FiniteSets, TLC

VARIABLES web, depth, url, current_depth, pages, all_links, visited,
          fetched, pc, result, soup, content, SAVES_FILE, handlers

vars == <<web, depth, url, current_depth, pages, all_links, visited,
          fetched, pc, result, soup, content, SAVES_FILE, handlers>>

\* the variables of parse_url, and those of the saves routes
walkVars == <<web, depth, url, current_depth, pages, all_links, visited,
              fetched, pc, result, soup, content>>

saveVars == <<SAVES_FILE, handlers>>

(***************************************************************************)
(* Texts                                                                   *)
(***************************************************************************)
UpperCase == <<"A","B","C","D","E","F","G","H","I","J","K","L","M",
               "N","O","P","Q","R","S","T","U","V","W","X","Y","Z">>

LowerCase == <<"a","b","c","d","e","f","g","h","i","j","k","l","m",
               "n","o","p","q","r","s","t","u","v","w","x","y","z">>

DigitChars == {"0","1","2","3","4","5","6","7","8","9"}

SpaceChars == {" ", "\n", "\t"}

\* the characters \w of the regular expressions match
WordChars == {UpperCase[i] : i \in 1..26} \cup {LowerCase[i] : i \in 1..26}
             \cup DigitChars \cup {"_"}

LowerChar(c) ==
    IF \E i \in 1..26 : UpperCase[i] = c
    THEN LowerCase[CHOOSE i \in 1..26 : UpperCase[i] = c]
    ELSE c

\* str.lower()
lower(s) == [i \in 1..Len(s) |-> LowerChar(s[i])]

\* str.strip(): leading and trailing whitespace removed
strip(s) ==
    IF \A i \in 1..Len(s) : s[i] \in SpaceChars
    THEN <<>>
    ELSE LET first == CHOOSE i \in 1..Len(s) :
                          /\ s[i] \notin SpaceChars
                          /\ \A j \in 1..(i-1) : s[j] \in SpaceChars
             last  == CHOOSE i \in 1..Len(s) :
                          /\ s[i] \notin SpaceChars
                          /\ \A j \in (i+1)..Len(s) : s[j] \in SpaceChars
         IN  SubSeq(s, first, last)

\* str.isdigit()
isdigit(s) == Len(s) > 0 /\ \A i \in 1..Len(s) : s[i] \in DigitChars

\* s[i..j] is a non-empty run of digits
DigitRun(s, i, j) ==
    /\ 1 <= i /\ i <= j /\ j <= Len(s)
    /\ \A k \in i..j : s[k] \in DigitChars

\* s[i..j] is a non-empty run of whitespace
SpaceRun(s, i, j) ==
    /\ 1 <= i /\ i <= j /\ j <= Len(s)
    /\ \A k \in i..j : s[k] \in SpaceChars

\* t occurs in s at position i
OccursAt(s, t, i) ==
    /\ 1 <= i /\ i + Len(t) - 1 <= Len(s)
    /\ \A k \in 1..Len(t) : s[i + k - 1] = t[k]

\* Python's `t in s`
Contains(s, t) == Len(t) = 0 \/ \E i \in 1..Len(s) : OccursAt(s, t, i)

\* \b before position i, the character at i being a word character
WordStart(s, i) == i = 1 \/ s[i-1] \notin WordChars

\* \b after position j, the character at j being a word character
WordEnd(s, j) == j = Len(s) \/ s[j+1] \notin WordChars

\* re.match(r'^(\d+|(\d+\s+comments?))$', s, re.IGNORECASE)
MatchesCount(s) ==
    LET t == lower(s)
        comment == <<"c","o","m","m","e","n","t">>
    IN  \/ isdigit(t)
        \/ \E i \in 1..Len(t) : \E j \in (i+1)..Len(t) :
              /\ DigitRun(t, 1, i)
              /\ SpaceRun(t, i+1, j)
              /\ SubSeq(t, j+1, Len(t)) \in {comment, comment \o <<"s">>}

\* re.search(r'\b\d+\.\d+(\.\d+)?\b', s): the optional group adds no match,
\* a match with it has a prefix \d+\.\d+ that ends before the "."
HasVersion(s) ==
    \E a \in 1..Len(s) : \E b \in a..Len(s) : \E c \in (b+2)..Len(s) :
        /\ WordStart(s, a)
        /\ DigitRun(s, a, b)
        /\ s[b+1] = "."
        /\ DigitRun(s, b+2, c)
        /\ WordEnd(s, c)

Months == { <<"J","a","n">>, <<"F","e","b">>, <<"M","a","r">>, <<"A","p","r">>,
            <<"M","a","y">>, <<"J","u","n">>, <<"J","u","l">>, <<"A","u","g">>,
            <<"S","e","p">>, <<"O","c","t">>, <<"N","o","v">>, <<"D","e","c">> }

\* re.search(r'\b(?:Jan|...|Dec)\s+\d{1,2},?\s+\d{4}\b', s)
HasDate(s) ==
    \E a \in 1..Len(s) : \E b \in (a+3)..Len(s) : \E nd \in {1, 2} :
    \E comma \in {0, 1} : \E f \in (b+nd+comma+1)..Len(s) :
        /\ WordStart(s, a)
        /\ a + 2 <= Len(s) /\ SubSeq(s, a, a+2) \in Months
        /\ SpaceRun(s, a+3, b)
        /\ DigitRun(s, b+1, b+nd)
        /\ (comma = 1 => s[b+nd+1] = ",")
        /\ SpaceRun(s, b+nd+comma+1, f)
        /\ DigitRun(s, f+1, f+4)
        /\ WordEnd(s, f+4)

\* re.compile(r'next|older|»', re.I).search(s)
NextPattern(s) ==
    \/ Contains(lower(s), <<"n","e","x","t">>)
    \/ Contains(lower(s), <<"o","l","d","e","r">>)
    \/ Contains(s, <<"»">>)

(***************************************************************************)
(* URLs (urllib.parse)                                                     *)
(***************************************************************************)
NoQuery == -1

\* atoms of the model that, written out, begin with the characters "http"
HttpPrefixed == {"http", "https"}

\* urllib.parse.uses_relative and uses_netloc, over the schemes of the model
UsesRelative == {"", "http", "https"}

UsesNetloc == {"", "http", "https"}

Url(scheme, netloc, path, query, fragment) ==
    [scheme |-> scheme, netloc |-> netloc, path |-> path, query |-> query,
     fragment |-> fragment]

\* the empty string, parsed
EmptyUrl == Url("", "", <<"">>, NoQuery, "")

\* the loop of urljoin that removes "." and ".." segments
RECURSIVE ResolveDots(_, _)
ResolveDots(segments, resolved) ==
    IF segments = <<>> THEN resolved
    ELSE LET seg == Head(segments)
         IN  IF seg = ".."
             THEN ResolveDots(Tail(segments),
                              IF resolved = <<>> THEN resolved
                              ELSE SubSeq(resolved, 1, Len(resolved) - 1))
             ELSE IF seg = "."
             THEN ResolveDots(Tail(segments), resolved)
             ELSE ResolveDots(Tail(segments), Append(resolved, seg))

\* segments[1:-1] = filter(None, segments[1:-1])
DropEmptyMiddle(segments) ==
    IF Len(segments) <= 2 THEN segments
    ELSE <<segments[1]>>
         \o SelectSeq(SubSeq(segments, 2, Len(segments) - 1), LAMBDA g : g /= "")
         \o <<segments[Len(segments)]>>

\* '/'.join(resolved_path) or '/'
JoinedOrRoot(resolved) ==
    IF resolved = <<>> \/ resolved = <<"">> THEN <<"", "">> ELSE resolved

\* urllib.parse.urljoin(base, u)
urljoin(base, u) ==
    IF base = EmptyUrl THEN u
    ELSE IF u = EmptyUrl THEN base
    ELSE LET scheme == IF u.scheme = "" THEN base.scheme ELSE u.scheme
         IN  IF scheme /= base.scheme \/ scheme \notin UsesRelative THEN u
             ELSE IF scheme \in UsesNetloc /\ u.netloc /= ""
             THEN [u EXCEPT !.scheme = scheme]
             ELSE IF u.path = <<"">>
             THEN Url(scheme, base.netloc, base.path,
                      IF u.query = NoQuery THEN base.query ELSE u.query,
                      u.fragment)
             ELSE LET base_parts ==
                          IF base.path[Len(base.path)] /= ""
                          THEN SubSeq(base.path, 1, Len(base.path) - 1)
                          ELSE base.path
                      segments ==
                          IF Len(u.path) >= 2 /\ u.path[1] = ""
                          THEN u.path
                          ELSE DropEmptyMiddle(base_parts \o u.path)
                      resolved ==
                          LET r == ResolveDots(segments, <<>>)
                          IN  IF segments[Len(segments)] \in {".", ".."}
                              THEN Append(r, "") ELSE r
                  IN  Url(scheme, base.netloc, JoinedOrRoot(resolved),
                          u.query, u.fragment)

\* str(url).startswith('http')
StartsWithHttp(u) ==
    IF u.scheme /= "" THEN u.scheme \in HttpPrefixed
    ELSE u.netloc = "" /\ u.path[1] \in HttpPrefixed

\* re.compile(r'\?page=\d+') finds a match in the href as written
HasPageParam(u) == u.query /= NoQuery

\* int(re.search(r'\?page=(\d+)', href).group(1))
PageParam(u) == u.query

(***************************************************************************)
(* Documents                                                               *)
(*   boiler    : the element lies inside a nav, header, footer or aside    *)
(*   container : the candidate main container that holds it: "div" (a div  *)
(*               whose class has content/main/article/post), "article",    *)
(*               "main", or "none"                                         *)
(*   ul        : the <ul> it is a list item of (0: none); the element is   *)
(*               then the only child of its <li>                           *)
(*   tag, attrs, text, href : its name, the attributes it carries, its     *)
(*               text as written, and its href attribute parsed            *)
(***************************************************************************)
Element(boiler, container, ul, tag, attrs, text, href) ==
    [boiler |-> boiler, container |-> container, ul |-> ul, tag |-> tag,
     attrs |-> attrs, text |-> text, href |-> href]

\* a raised exception, or a returned value
Raise(e) == [ok |-> FALSE, error |-> e, value |-> <<>>]

Return(v) == [ok |-> TRUE, error |-> "", value |-> v]

\* lines 39-40: every element under a nav/header/footer/aside is destroyed
StripBoilerplate(doc) == SelectSeq(doc, LAMBDA e : ~e.boiler)

\* lines 42-46: the first div with a content class, or the first article,
\* or the first main ("none": no container)
SelectContainer(doc) ==
    LET has(c) == \E i \in 1..Len(doc) : doc[i].container = c
    IN  IF has("div") THEN "div"
        ELSE IF has("article") THEN "article"
        ELSE IF has("main") THEN "main"
        ELSE "none"

\* line 52: all(li.find('a') for li in ul.find_all('li'))
LinkOnlyList(doc, k) == \A i \in 1..Len(doc) : doc[i].ul = k => doc[i].tag = "a"

\* lines 51-53: the link-only lists of the chosen container are destroyed
DropLinkLists(doc, c) ==
    SelectSeq(doc, LAMBDA e : ~(e.container = c /\ e.ul /= 0 /\ LinkOnlyList(doc, e.ul)))

\* the soup object after find_main_content(soup) has run on it
SoupAfterLocate(doc) ==
    LET stripped == StripBoilerplate(doc)
        c == SelectContainer(stripped)
    IN  IF c = "none" THEN stripped ELSE DropLinkLists(stripped, c)

\* find_main_content(soup): found is FALSE for None, else the elements of
\* the container that are left
find_main_content(doc) ==
    LET stripped == StripBoilerplate(doc)
        c == SelectContainer(stripped)
    IN  IF c = "none" THEN [found |-> FALSE, nodes |-> <<>>]
        ELSE [found |-> TRUE,
              nodes |-> SelectSeq(DropLinkLists(stripped, c),
                                  LAMBDA e : e.container = c)]

(***************************************************************************)
(* Content extraction                                                      *)
(***************************************************************************)
ContentTags == {"p", "h1", "h2", "h3", "h4", "h5", "h6", "blockquote", "pre",
                "strong"}

\* the tags of content items for which item['tag'].startswith('h') holds
StartsWithH(tag) == tag \in {"h1", "h2", "h3", "h4", "h5", "h6"}

\* str.rstrip('\n')
RECURSIVE rstrip_nl(_)
rstrip_nl(s) ==
    IF s /= <<>> /\ s[Len(s)] = "\n" THEN rstrip_nl(SubSeq(s, 1, Len(s) - 1))
    ELSE s

\* extract_pre_content for a <pre> whose only child is a string
extract_pre_content(e) == [tag |-> "pre", text |-> rstrip_nl(e.text)]

\* a heading is dropped only when it is the last item
LastHeadingOnly(items, i) == StartsWithH(items[i].tag) /\ i = Len(items)

\* line 209: the item at i is a heading that is last or followed by one
DanglingHeading(items, i) ==
    /\ StartsWithH(items[i].tag)
    /\ (i = Len(items) \/ StartsWithH(items[i+1].tag))

RECURSIVE FilterFrom(_, _)
FilterFrom(items, i) ==
    IF i > Len(items) THEN <<>>
    ELSE IF DanglingHeading(items, i) THEN FilterFrom(items, i + 1)
    ELSE <<items[i]>> \o FilterFrom(items, i + 1)

filter_empty_headings(items) == FilterFrom(items, 1)

\* lines 61-73, the loop body for the tags other than blockquote
RECURSIVE CollectContent(_)
CollectContent(nodes) ==
    IF nodes = <<>> THEN <<>>
    ELSE LET e == Head(nodes)
             rest == CollectContent(Tail(nodes))
         IN  IF e.tag \notin ContentTags THEN rest
             ELSE IF e.tag = "pre" THEN <<extract_pre_content(e)>> \o rest
             ELSE IF e.tag = "strong"
             THEN <<[tag |-> "strong", text |-> strip(e.text)]>> \o rest
             ELSE IF strip(e.text) /= <<>>
             THEN <<[tag |-> e.tag, text |-> strip(e.text)]>> \o rest
             ELSE rest

\* line 63: extract_blockquote_content(tag) is called with one argument and
\* takes three: the call raises TypeError
BlockquoteCall == Raise("TypeError")

\* extract_content(main_content)
extract_content(nodes) ==
    IF \E i \in 1..Len(nodes) : nodes[i].tag = "blockquote"
    THEN BlockquoteCall
    ELSE Return(filter_empty_headings(CollectContent(nodes)))

(***************************************************************************)
(* Metadata                                                                *)
(***************************************************************************)
NoAuthor == [present |-> FALSE, name |-> <<>>]

\* extract_author(soup), for <meta name="author">: author_meta['content']
\* raises KeyError when the element has no content attribute
extract_author(doc) ==
    IF \E i \in 1..Len(doc) : doc[i].tag = "meta"
    THEN LET first == CHOOSE i \in 1..Len(doc) :
                          /\ doc[i].tag = "meta"
                          /\ \A j \in 1..(i-1) : doc[j].tag /= "meta"
         IN  IF "content" \in doc[first].attrs
             THEN Return([present |-> TRUE, name |-> doc[first].text])
             ELSE Raise("KeyError")
    ELSE Return(NoAuthor)

\* extract_metadata(soup); the publication date is a search of the text
\* that raises nothing the pipeline does not catch, and is left out
extract_metadata(doc) == extract_author(doc)

(***************************************************************************)
(* Links                                                                   *)
(***************************************************************************)
Link(text, href) == [text |-> text, href |-> href]

\* lines 185-188
HarvestIgnoredTerms ==
    { <<"p","r","e","v","i","o","u","s">>, <<"n","e","x","t">>,
      <<"o","l","d","e","r">>, <<"n","e","w","e","r">>, <<"«">>, <<"»">>,
      <<"f","i","r","s","t">>, <<"l","a","s","t">>, <<"p","a","g","e">>,
      <<"c","o","m","m","e","n","t">>, <<"r","e","p","l","y">> }

\* lines 194-200, the conditions on the text of one anchor
HarvestTextAccepted(text) ==
    /\ ~(HasVersion(text) \/ HasDate(text))
    /\ text /= <<>>
    /\ ~\E term \in HarvestIgnoredTerms : Contains(lower(text), term)
    /\ ~isdigit(strip(text))
    /\ ~MatchesCount(strip(text))

\* lines 194-200, for the text and the resolved href of one anchor
HarvestAccepts(text, href) ==
    /\ StartsWithHttp(href)
    /\ HarvestTextAccepted(text)

\* an anchor's href attribute as it is written, unresolved
WrittenHref(a_tag, base_url) == a_tag.href

\* line 190: href = urljoin(base_url, a_tag['href'])
ResolvedHref(a_tag, base_url) == urljoin(base_url, a_tag.href)

\* extract_links(soup, base_url)
RECURSIVE extract_links(_, _)
extract_links(doc, base_url) ==
    IF doc = <<>> THEN <<>>
    ELSE LET a_tag == Head(doc)
             rest == extract_links(Tail(doc), base_url)
         IN  IF a_tag.tag = "a" /\ "href" \in a_tag.attrs
             THEN LET href == ResolvedHref(a_tag, base_url)
                      text == strip(a_tag.text)
                  IN  IF HarvestAccepts(text, href)
                      THEN <<Link(text, href)>> \o rest
                      ELSE rest
             ELSE rest

\* lines 88-95
ParagraphIgnoredTerms ==
    HarvestIgnoredTerms \cup
    { <<"s","i","g","n"," ","u","p">>, <<"s","i","g","n"," ","i","n">>,
      <<"f","o","l","l","o","w">>, <<"l","o","g","i","n">>,
      <<"r","e","g","i","s","t","e","r">>, <<"s","u","b","s","c","r","i","b","e">>,
      <<"b","a","c","k">>, <<"f","o","r","w","a","r","d">>, <<"e","d","i","t">>,
      <<"<","<">>, <<">",">">>, <<"t","e","r","m","s">>,
      <<"p","r","i","v","a","c","y">>, <<"c","o","o","k","i","e">>,
      <<"a","b","o","u","t"," ","u","s">>, <<"c","o","n","t","a","c","t">>,
      <<"r","s","s">>, <<"f","e","e","d">>, <<"a","r","c","h","i","v","e">>,
      <<"c","a","t","e","g","o","r","y">>, <<"t","a","g">> }

\* extract_link_content(tag, blockquote_text, base_url): the link it
\* returns, or none; tag.get('href', '') is the empty URL without an href
extract_link_content(a_tag, blockquote_text, base_url) ==
    LET text == strip(a_tag.text)
        href == urljoin(base_url,
                        IF "href" \in a_tag.attrs THEN a_tag.href ELSE EmptyUrl)
    IN  IF /\ lower(text) \notin blockquote_text
           /\ ~\E term \in ParagraphIgnoredTerms : Contains(lower(text), term)
           /\ ~isdigit(strip(text))
           /\ StartsWithHttp(href)
           /\ Len(strip(text)) > 1
           /\ ~MatchesCount(strip(text))
        THEN <<Link(text, href)>>
        ELSE <<>>

\* s[:n]
Take(s, n) == IF n <= 0 THEN <<>> ELSE SubSeq(s, 1, IF n < Len(s) THEN n ELSE Len(s))

\* line 353: list({link['href']: link for link in all_links}.values()); a
\* dict keeps a key at the place of its first insertion and the value of
\* its last one
RECURSIVE UniqueFrom(_, _)
UniqueFrom(links, i) ==
    IF i > Len(links) THEN <<>>
    ELSE IF \E j \in 1..(i-1) : links[j].href = links[i].href
    THEN UniqueFrom(links, i + 1)
    ELSE LET last == CHOOSE j \in i..Len(links) :
                         /\ links[j].href = links[i].href
                         /\ \A k \in (j+1)..Len(links) : links[k].href /= links[i].href
         IN  <<links[last]>> \o UniqueFrom(links, i + 1)

unique_links(links) == UniqueFrom(links, 1)

(***************************************************************************)
(* Pagination                                                              *)
(***************************************************************************)
NoNext == [kind |-> "none", url |-> EmptyUrl]

NextIs(u) == [kind |-> "url", url |-> u]

NextRaises == [kind |-> "raise", url |-> EmptyUrl]

\* the index of the first TRUE of a sequence of flags, 0 if there is none:
\* soup.find and next(..., None) take the first match in document order
FirstIndex(flags) ==
    IF \E i \in 1..Len(flags) : flags[i]
    THEN CHOOSE i \in 1..Len(flags) : flags[i] /\ \A j \in 1..(i-1) : ~flags[j]
    ELSE 0

\* line 222: soup.url is soup.find('url'), the first <url> element or None.
\* '?page=' in None raises TypeError, and so does re.search on an element
\* when '?page=' is one of its children; otherwise the number is 1
CurrentPage(doc) ==
    LET u == FirstIndex([k \in 1..Len(doc) |-> doc[k].tag = "url"])
    IN  IF u = 0 THEN Raise("TypeError")
        ELSE IF doc[u].text = <<"?","p","a","g","e","=">> THEN Raise("TypeError")
        ELSE Return(1)

\* find_next_page(soup, base_url)
find_next_page(doc, base_url) ==
    LET next_link ==
            FirstIndex([k \in 1..Len(doc) |->
                           doc[k].tag = "a" /\ NextPattern(doc[k].text)])
        page_links == SelectSeq(doc, LAMBDA e : /\ e.tag = "a"
                                                /\ "href" \in e.attrs
                                                /\ HasPageParam(e.href))
    IN  IF next_link /= 0 /\ "href" \in doc[next_link].attrs
        THEN NextIs(urljoin(base_url, doc[next_link].href))
        ELSE IF page_links = <<>> THEN NoNext
        ELSE LET current_page == CurrentPage(doc)
             IN  IF ~current_page.ok THEN NextRaises
                 ELSE LET n == FirstIndex([k \in 1..Len(page_links) |->
                                   PageParam(page_links[k].href)
                                       = current_page.value + 1])
                      IN  IF n = 0 THEN NoNext
                          ELSE NextIs(urljoin(base_url, page_links[n].href))

(***************************************************************************)
(* The walk of parse_url                                                   *)
(*   web           : what a GET of each URL answers (a document, or a      *)
(*                   transport error / non-2xx status)                     *)
(*   depth         : the depth argument                                    *)
(*   url, current_depth, pages, all_links, visited : the locals of         *)
(*                   parse_url, lines 304-351                              *)
(*   soup, content : the soup object and the content of the page in hand   *)
(*   fetched       : the URLs fetch_page was called with, in order         *)
(*   pc            : "loop" at the head of the for loop, "done" once       *)
(*                   parse_url has returned                                *)
(*   result        : the value parse_url returned                          *)
(***************************************************************************)
\* line 340: links[:10], and line 356: unique_links[:10 * depth]
LinkCap == 10

NoResult == [kind |-> "none", pages |-> <<>>, links |-> <<>>, error |-> ""]

\* lines 353-357
PagesResult(pgs, links) ==
    [kind |-> "pages", pages |-> pgs,
     links |-> Take(unique_links(links), LinkCap * depth), error |-> ""]

\* lines 358-360: the message carries str(e); the model keeps the exception
ErrorResult(e) ==
    [kind |-> "error", pages |-> <<>>, links |-> <<>>, error |-> e]

Unreachable == [ok |-> FALSE, doc |-> <<>>]

Serves(doc) == [ok |-> TRUE, doc |-> doc]

\* fetch_page(u): requests.get raises a RequestException for a URL without
\* an http(s) scheme or a host, for a transport error and (raise_for_status)
\* for a non-2xx answer; the fragment is not part of the request
fetch_page(u) ==
    LET request == [u EXCEPT !.fragment = ""]
    IN  IF u.scheme \notin {"http", "https"} \/ u.netloc = "" THEN Unreachable
        ELSE IF request \in DOMAIN web THEN web[request]
        ELSE Unreachable

\* lines 335-341
PageResult(u, c, m, links) ==
    [url |-> u, content |-> c, metadata |-> m, links |-> Take(links, LinkCap)]

\* the soup object after line 318, and what lines 318-333 compute from it
Located == SoupAfterLocate(fetch_page(url).doc)

MainContent == find_main_content(fetch_page(url).doc)

PageContent == extract_content(MainContent.nodes)

PageMetadata == extract_metadata(Located)

PageLinks == extract_links(Located, url)

NextPage == find_next_page(Located, url)

\* the loop is entered without the test of line 309
EnteringUnchecked == pc = "loop" /\ current_depth < depth

\* the loop is entered for another page: lines 308-311 passed
Entering ==
    /\ pc = "loop"
    /\ current_depth < depth
    /\ url \notin visited

\* lines 313-343 ran without a break or an exception
PageDone ==
    /\ Entering
    /\ fetch_page(url).ok
    /\ MainContent.found
    /\ PageContent.ok
    /\ PageMetadata.ok

Finish(pgs, links) ==
    /\ pc' = "done"
    /\ result' = PagesResult(pgs, links)

Fail(e) ==
    /\ pc' = "done"
    /\ result' = ErrorResult(e)

\* lines 335-343
Appended ==
    /\ pages' = Append(pages, PageResult(url, PageContent.value,
                                         PageMetadata.value, PageLinks))
    /\ all_links' = all_links \o PageLinks
    /\ visited' = visited \cup {url}
    /\ fetched' = Append(fetched, url)
    /\ soup' = Located
    /\ content' = PageContent.value

\* range(depth) is empty or used up
ForExhausted ==
    /\ pc = "loop"
    /\ current_depth >= depth
    /\ Finish(pages, all_links)
    /\ UNCHANGED <<web, depth, url, current_depth, pages, all_links, visited,
                   fetched, soup, content>>
    /\ UNCHANGED saveVars

\* lines 309-310
Revisit ==
    /\ pc = "loop"
    /\ current_depth < depth
    /\ url \in visited
    /\ Finish(pages, all_links)
    /\ UNCHANGED <<web, depth, url, current_depth, pages, all_links, visited,
                   fetched, soup, content>>
    /\ UNCHANGED saveVars

\* lines 313-316
FetchFails ==
    /\ Entering
    /\ ~fetch_page(url).ok
    /\ visited' = visited \cup {url}
    /\ fetched' = Append(fetched, url)
    /\ Finish(pages, all_links)
    /\ UNCHANGED <<web, depth, url, current_depth, pages, all_links, soup,
                   content>>
    /\ UNCHANGED saveVars

\* lines 318-321
NoMainContent ==
    /\ Entering
    /\ fetch_page(url).ok
    /\ ~MainContent.found
    /\ visited' = visited \cup {url}
    /\ fetched' = Append(fetched, url)
    /\ soup' = Located
    /\ Finish(pages, all_links)
    /\ UNCHANGED <<web, depth, url, current_depth, pages, all_links, content>>
    /\ UNCHANGED saveVars

\* lines 323-324 raise, line 358 catches
PageRaises ==
    /\ Entering
    /\ fetch_page(url).ok
    /\ MainContent.found
    /\ ~(PageContent.ok /\ PageMetadata.ok)
    /\ visited' = visited \cup {url}
    /\ fetched' = Append(fetched, url)
    /\ soup' = Located
    /\ content' = IF PageContent.ok THEN PageContent.value ELSE content
    /\ Fail(IF PageContent.ok THEN PageMetadata.error ELSE PageContent.error)
    /\ UNCHANGED <<web, depth, url, current_depth, pages, all_links>>
    /\ UNCHANGED saveVars

\* lines 345-346
LastDepth ==
    /\ PageDone
    /\ current_depth = depth - 1
    /\ Appended
    /\ Finish(pages', all_links')
    /\ UNCHANGED <<web, depth, url, current_depth>>
    /\ UNCHANGED saveVars

\* line 348 raises, line 358 catches
NextPageRaises ==
    /\ PageDone
    /\ current_depth /= depth - 1
    /\ NextPage.kind = "raise"
    /\ Appended
    /\ Fail("TypeError")
    /\ UNCHANGED <<web, depth, url, current_depth>>
    /\ UNCHANGED saveVars

\* lines 349-350
NoNextPage ==
    /\ PageDone
    /\ current_depth /= depth - 1
    /\ NextPage.kind = "none"
    /\ Appended
    /\ Finish(pages', all_links')
    /\ UNCHANGED <<web, depth, url, current_depth>>
    /\ UNCHANGED saveVars

\* line 351, and the next turn of the for loop
Advance ==
    /\ PageDone
    /\ current_depth /= depth - 1
    /\ NextPage.kind = "url"
    /\ Appended
    /\ url' = NextPage.url
    /\ current_depth' = current_depth + 1
    /\ UNCHANGED <<web, depth, pc, result>>
    /\ UNCHANGED saveVars

Next ==
    \/ ForExhausted
    \/ Revisit
    \/ FetchFails
    \/ NoMainContent
    \/ PageRaises
    \/ LastDepth
    \/ NextPageRaises
    \/ NoNextPage
    \/ Advance

(***************************************************************************)
(* Bounded inputs                                                          *)
(***************************************************************************)
\* the most elements the documents of the web hold together
MaxNodes == 3

\* the largest depth argument
MaxDepth == 3

Path(name) == Url("", "", <<"", name>>, NoQuery, "")

PageQuery(n) == Url("", "", <<"">>, n, "")

Fragment(name) == Url("", "", <<"">>, NoQuery, name)

SiteA == Url("http", "a", <<"", "">>, NoQuery, "")

SiteB == Url("http", "a", <<"", "b">>, NoQuery, "")

Sites == {SiteA, SiteB}

Hi == <<"H","i">>

NextText == <<"N","e","x","t">>

Al == <<"A","l">>

Be == <<"B","e">>

Two == <<"2">>

Anchor(boiler, container, text, href) ==
    Element(boiler, container, 0, "a", {"href"}, text, href)

Block(container, tag, text) ==
    Element(FALSE, container, 0, tag, {}, text, EmptyUrl)

\* what the documents of the walk are made of: paragraphs, a blockquote,
\* next-page anchors to either site, two anchors with one target, an
\* anchor of the navigation, a ?page=2 anchor, an author without content,
\* a <url> element
Elements ==
    { Block("article", "p", Hi),
      Block("article", "blockquote", Hi),
      Anchor(FALSE, "article", NextText, Path("")),
      Anchor(FALSE, "article", NextText, Path("b")),
      Anchor(FALSE, "article", Al, Path("x")),
      Anchor(FALSE, "article", Be, Path("x")),
      Anchor(TRUE, "none", Al, Path("y")),
      Anchor(FALSE, "article", Two, PageQuery(2)),
      Element(FALSE, "none", 0, "meta", {"name"}, <<>>, EmptyUrl),
      Block("none", "url", <<>>) }

\* what the documents of the cycle walks are made of
WalkElements ==
    { Block("article", "p", Hi),
      Block("article", "blockquote", Hi),
      Anchor(FALSE, "article", NextText, Path("")),
      Anchor(FALSE, "article", NextText, Path("b")),
      Anchor(FALSE, "article", NextText, Fragment("top")),
      Anchor(FALSE, "article", Two, PageQuery(2)) }

Docs(E, n) == UNION {[1..k -> E] : k \in 0..n}

Responses(E, n) == {Unreachable} \cup {Serves(d) : d \in Docs(E, n)}

\* SAVES_FILE before any route has touched it: no file, no request in flight
Absent == [exists |-> FALSE, size |-> 0, valid |-> FALSE, saves |-> <<>>]

NoSaves ==
    /\ SAVES_FILE = Absent
    /\ handlers = <<>>

\* the locals of parse_url at its first line
Called ==
    /\ current_depth = 0
    /\ pages = <<>>
    /\ all_links = <<>>
    /\ visited = {}
    /\ fetched = <<>>
    /\ soup = <<>>
    /\ content = <<>>
    /\ pc = "loop"
    /\ result = NoResult

\* parse_url(SiteA, depth) on a web of two pages made of the elements E
InitOver(E, n) ==
    /\ \E a \in Responses(E, n) :
       \E b \in Responses(E, n - Len(a.doc)) :
           web = [s \in Sites |-> IF s = SiteA THEN a ELSE b]
    /\ depth \in 0..MaxDepth
    /\ url = SiteA
    /\ Called
    /\ NoSaves

Init == InitOver(Elements, MaxNodes)

Spec == Init /\ [][Next]_vars

\* the most elements the documents of the cycle walks hold together
MaxWalkNodes == 3

WalkInit == InitOver(WalkElements, MaxWalkNodes)

WalkSpec == WalkInit /\ [][Next]_vars

(***************************************************************************)
(* Properties of the walk                                                  *)
(***************************************************************************)
Returned == pc = "done"

\* the page fetched last was not appended: its fetch failed, it had no main
\* content, or its processing raised
LastPageFailed == Returned /\ Len(fetched) > Len(pages)

\* C1: when pages 0..i-1 were processed and page i fails (fetch failure, no
\* main content, or an exception while it is processed), the result holds
\* the Page Results of pages 0..i-1 in order (an error result holds none).
C1_PartialResultsKept == LastPageFailed => result.pages = pages

\* the walk ended at line 310: the URL in hand had been visited
StoppedOnRevisit ==
    /\ Returned
    /\ current_depth < depth
    /\ Len(fetched) = current_depth

\* lines 309-310 as a step: from the head of the loop with a visited URL in
\* hand, parse_url returns the pages it has, fetching nothing more
CycleStops ==
    (pc = "loop" /\ current_depth < depth /\ url \in visited)
        => /\ pc' = "done"
           /\ result'.kind = "pages"
           /\ result'.pages = pages
           /\ fetched' = fetched

\* C2: a walk fetches no URL twice and at most depth pages, and when the
\* next-page link leads to a URL already visited it stops and returns the
\* pages visited so far, not an error.
C2_NoRefetchAndCycleStops ==
    /\ [](/\ \A i, j \in 1..Len(fetched) : i /= j => fetched[i] /= fetched[j]
          /\ Len(fetched) <= depth
          /\ (StoppedOnRevisit => result.kind = "pages" /\ result.pages = pages))
    /\ [][CycleStops]_vars

\* a walk of depth 3 came back to its first page after two pages
C2_Witness ==
    /\ StoppedOnRevisit
    /\ depth = 3
    /\ Len(fetched) = 2
    /\ url = fetched[1]
    /\ Len(result.pages) = 2

\* C3: the links of the Parse Result hold each href once, in order of first
\* occurrence over the whole walk, and the record kept for an href is the
\* one of its first occurrence.
C3_FirstOccurrenceWins ==
    (Returned /\ result.kind = "pages") =>
        /\ \A i, j \in 1..Len(result.links) :
              i /= j => result.links[i].href /= result.links[j].href
        /\ \A i \in 1..Len(result.links) :
              \E k \in 1..Len(all_links) :
                  /\ all_links[k] = result.links[i]
                  /\ \A m \in 1..(k-1) : all_links[m].href /= result.links[i].href
        /\ \A i, j \in 1..Len(result.links) :
              i < j =>
                  \E k \in 1..Len(all_links) :
                      /\ all_links[k].href = result.links[i].href
                      /\ \A m \in 1..k : all_links[m].href /= result.links[j].href

(***************************************************************************)
(* One page: parse_url(url, 1)                                             *)
(***************************************************************************)
\* the steps a walk of depth 1 can take
NextOnePage ==
    \/ FetchFails
    \/ NoMainContent
    \/ PageRaises
    \/ LastDepth

\* parse_url(u, 1) where u serves a document of at most n elements of E
InitOnePage(U, E, n) ==
    /\ \E u \in U : \E r \in Responses(E, n) :
          /\ web = [s \in {u} |-> r]
          /\ url = u
    /\ depth = 1
    /\ Called
    /\ NoSaves

\* the most blocks a document of the content walks holds
MaxBlocks == 4

NewLine == <<"H","i","\n">>

Blank == <<" ">>

ContentElements ==
    { Block("article", "p", Hi),
      Block("article", "p", Blank),
      Block("article", "h1", Hi),
      Block("article", "h2", Al),
      Block("article", "pre", NewLine),
      Block("article", "strong", <<>>),
      Block("article", "blockquote", Hi),
      Block("none", "h1", Hi) }

ContentInit == InitOnePage({SiteA}, ContentElements, MaxBlocks)

ContentSpec == ContentInit /\ [][NextOnePage]_vars

\* the most elements a document of the link walks holds
MaxAnchors == 3

SiteDeep == Url("https", "a", <<"", "d", "e">>, 2, "")

Version == <<"1",".","2">>

LinkElements ==
    { Anchor(FALSE, "article", Al, Path("x")),
      Anchor(FALSE, "none", Be, Fragment("top")),
      Anchor(FALSE, "article", Al, Url("", "", <<"x">>, NoQuery, "")),
      Anchor(FALSE, "article", Al, Url("http", "b", <<"", "z">>, NoQuery, "")),
      Anchor(FALSE, "article", Al, Url("mailto", "", <<"m">>, NoQuery, "")),
      Anchor(FALSE, "article", Two, Path("x")),
      Anchor(FALSE, "article", Version, Path("v")),
      Anchor(TRUE, "article", Al, Path("y")),
      Element(FALSE, "article", 1, "a", {"href"}, Be, Path("y")),
      Element(FALSE, "article", 0, "a", {}, Al, EmptyUrl),
      Element(FALSE, "none", 0, "meta", {"name"}, <<>>, EmptyUrl) }

LinkInit == InitOnePage({SiteA, SiteDeep}, LinkElements, MaxAnchors)

LinkSpec == LinkInit /\ [][NextOnePage]_vars

(***************************************************************************)
(* Properties of the content of a page                                     *)
(***************************************************************************)
IsHeading(item) == item.tag \in {"h1", "h2", "h3", "h4", "h5", "h6"}

Body(items) == SelectSeq(items, LAMBDA item : ~IsHeading(item))

\* the document the URL u served
Served(u) == fetch_page(u).doc

\* the content nodes extracted from the page at u, before the post-pass
Extracted(u) == CollectContent(find_main_content(Served(u)).nodes)

\* C4: the content extract_content returns never ends with a Heading, never
\* holds two adjacent Headings, and keeps every non-Heading node of the
\* extracted sequence in its order.
C4_HeadingsPruned ==
    \A n \in 1..Len(pages) :
        LET out == pages[n].content
        IN  /\ out /= <<>> => ~IsHeading(out[Len(out)])
            /\ \A i \in 1..(Len(out) - 1) : ~(IsHeading(out[i]) /\ IsHeading(out[i+1]))
            /\ Body(out) = Body(Extracted(pages[n].url))

\* a page whose extracted sequence has two adjacent headings, a body node
\* and a last heading
C4_Witness ==
    /\ Returned
    /\ Len(pages) = 1
    /\ LET in == Extracted(pages[1].url)
       IN  /\ Len(in) = 4
           /\ IsHeading(in[1]) /\ IsHeading(in[2])
           /\ ~IsHeading(in[3]) /\ IsHeading(in[4])
           /\ Len(pages[1].content) = 2

(***************************************************************************)
(* Properties of the links                                                 *)
(***************************************************************************)
\* an href with no scheme and no host: a path, a query or a fragment alone
RelativeHref(h) == h.scheme = "" /\ h.netloc = ""

IsAnchor(e) == e.tag = "a" /\ "href" \in e.attrs

\* the Link the anchor e of the page at u stands for
LinkOf(e, u) == Link(strip(e.text), urljoin(u, e.href))

Holds(links, l) == \E i \in 1..Len(links) : links[i] = l

\* C5 as stated: no stored Link comes from an anchor whose href is relative
\* or anchor-only, whatever the base URL.
C5_RelativeHrefsDropped ==
    \A n \in 1..Len(pages) :
        \A i \in 1..Len(pages[n].links) :
            ~\E k \in 1..Len(Served(pages[n].url)) :
                LET e == Served(pages[n].url)[k]
                IN  /\ IsAnchor(e)
                    /\ RelativeHref(e.href)
                    /\ LinkOf(e, pages[n].url) = pages[n].links[i]

\* C5 as amended: every stored Link has the absolute http(s) href that the
\* href of its anchor resolves to against the URL of the page, and an
\* anchor with a relative or anchor-only href is not dropped: when the
\* harvester scans it and its text passes the filter, its Link is stored
\* under the resolved URL (within the cap of a page).
C5_HrefsResolvedNotDropped ==
    \A n \in 1..Len(pages) :
        LET u == pages[n].url
            stored == pages[n].links
            scanned == SoupAfterLocate(Served(u))
        IN  /\ \A i \in 1..Len(stored) :
                  /\ StartsWithHttp(stored[i].href)
                  /\ ~RelativeHref(stored[i].href)
                  /\ \E k \in 1..Len(scanned) :
                        IsAnchor(scanned[k]) /\ LinkOf(scanned[k], u) = stored[i]
            /\ \A k \in 1..Len(scanned) :
                  (/\ IsAnchor(scanned[k])
                   /\ RelativeHref(scanned[k].href)
                   /\ HarvestTextAccepted(strip(scanned[k].text)))
                  => \/ /\ Holds(stored, LinkOf(scanned[k], u))
                        /\ ~RelativeHref(LinkOf(scanned[k], u).href)
                     \/ Len(stored) = LinkCap
            /\ \A k \in 1..Len(scanned) :
                  LET got == extract_link_content(scanned[k], {}, u)
                  IN  (IsAnchor(scanned[k]) /\ got /= <<>>)
                      => /\ got[1] = LinkOf(scanned[k], u)
                         /\ StartsWithHttp(got[1].href)
                         /\ ~RelativeHref(got[1].href)
            /\ \A i \in 1..Len(result.links) :
                  StartsWithHttp(result.links[i].href)

\* a page served under a deep URL stored the Links of a path-relative and
\* of an anchor-only href
C5_Witness ==
    /\ Returned
    /\ Len(pages) = 1
    /\ pages[1].url = SiteDeep
    /\ Holds(pages[1].links,
             Link(Al, Url("https", "a", <<"", "d", "x">>, NoQuery, "")))
    /\ Holds(pages[1].links,
             Link(Be, Url("https", "a", <<"", "d", "e">>, 2, "top")))
    /\ \A k \in 1..Len(Served(SiteDeep)) : RelativeHref(Served(SiteDeep)[k].href)

\* C6: the links of a Page Result hold each href at most once, in
\* first-seen order, and at most 10 entries.
C6_PageLinksDeduplicated ==
    \A n \in 1..Len(pages) :
        LET stored == pages[n].links
        IN  /\ Len(stored) <= LinkCap
            /\ \A i, j \in 1..Len(stored) :
                  i /= j => stored[i].href /= stored[j].href

\* C7: locating the main content leaves the document unchanged for the
\* later steps: every anchor of the served document that passes the link
\* filter is harvested into the links of the page (within its cap), also
\* one inside a stripped region.
C7_StrippedAnchorsHarvested ==
    \A n \in 1..Len(pages) :
        LET u == pages[n].url
        IN  \A k \in 1..Len(Served(u)) :
                (/\ IsAnchor(Served(u)[k])
                 /\ HarvestAccepts(strip(Served(u)[k].text),
                                   urljoin(u, Served(u)[k].href)))
                => \/ Holds(pages[n].links, LinkOf(Served(u)[k], u))
                   \/ Len(pages[n].links) = LinkCap

(***************************************************************************)
(* Properties of the end of the walk                                       *)
(***************************************************************************)
\* the page number of a URL: its ?page= parameter, 1 without one
PageNumberOf(u) == IF u.query = NoQuery THEN 1 ELSE u.query

\* the walk ended on a page it had processed and appended
EndedOnProcessedPage ==
    /\ Returned
    /\ pages /= <<>>
    /\ Len(pages) = Len(fetched)

\* C8: on a page that is not at the last permitted depth, without an anchor
\* whose text matches next|older|» and with a ?page=N anchor where N is the
\* page number of the URL walked plus 1, the walk goes on to that anchor's
\* URL: it does not end on that page.
C8_PageParamFollowed ==
    ~(/\ EndedOnProcessedPage
      /\ Len(pages) < depth
      /\ \A k \in 1..Len(soup) : ~(soup[k].tag = "a" /\ NextPattern(soup[k].text))
      /\ \E k \in 1..Len(soup) :
            /\ IsAnchor(soup[k])
            /\ HasPageParam(soup[k].href)
            /\ PageParam(soup[k].href) = PageNumberOf(pages[Len(pages)].url) + 1)

\* C9: for a page whose main container holds a blockquote with a non-empty
\* paragraph, parse returns a Page Result in which the text of the
\* paragraph appears exactly once, inside a Blockquote node.
C9_BlockquoteTextOnce ==
    \A n \in 1..Len(fetched) :
        LET main == find_main_content(Served(fetched[n]))
        IN  \A k \in 1..Len(main.nodes) :
                (/\ Returned
                 /\ main.found
                 /\ main.nodes[k].tag = "blockquote"
                 /\ strip(main.nodes[k].text) /= <<>>)
                => /\ result.kind = "pages"
                   /\ n <= Len(result.pages)
                   /\ LET c == result.pages[n].content
                      IN  /\ \E i \in 1..Len(c) : c[i].tag = "blockquote"
                          /\ \A i \in 1..Len(c) :
                                c[i].text = strip(main.nodes[k].text)
                                    => c[i].tag = "blockquote"

\* C10: when the fetch of the first URL fails, parse does not raise and
\* returns a result of error shape: an error message and empty content.
C10_FirstFetchFailureIsError ==
    (Returned /\ Len(fetched) = 1 /\ ~fetch_page(fetched[1]).ok)
        => /\ result.kind = "error"
           /\ result.error /= ""
           /\ result.pages = <<>>

\* ------------------------------------------------------------------------
\* The saves routes: SAVES_FILE and the handlers of POST /save
\* ------------------------------------------------------------------------

\* one saved record; a record carries the posted payload as well, which no
\* step of the route reads
Save(id, u) == [id |-> id, url |-> u]

\* The file is its byte extent and what json.load makes of it.  size counts
\* the extent in records: 0 for no bytes, 1 for "[]", 1 + n for an array of
\* n records (the records of the model are equally long).
Dumped(saves) ==
    [exists |-> TRUE, size |-> 1 + Len(saves), valid |-> TRUE, saves |-> saves]

\* open(SAVES_FILE, 'w'): the file exists and holds no bytes
Truncated == [exists |-> TRUE, size |-> 0, valid |-> FALSE, saves |-> <<>>]

\* leaving the with block writes the dump at offset 0 of the handle; bytes
\* another handle wrote past its end stay, and the file is no JSON document
Flushed(f, saves) ==
    IF f.size <= 1 + Len(saves)
    THEN Dumped(saves)
    ELSE [exists |-> TRUE, size |-> f.size, valid |-> FALSE, saves |-> <<>>]

\* the responses of save_content
NoResponse == [status |-> 0, message |-> "", id |-> 0]

UrlRequired == [status |-> 400, message |-> "URL is required", id |-> 0]

AlreadySavedResponse(id) ==
    [status |-> 200, message |-> "Content already saved", id |-> id]

SavedResponse(id) ==
    [status |-> 200, message |-> "Content saved successfully", id |-> id]

InternalError ==
    [status |-> 500, message |-> "An internal server error occurred",
     id |-> 0]

\* request.json: the posted url, when it has one
Content(has_url, u) == [has_url |-> has_url, url |-> u]

\* a handler of POST /save at its first line
Handler(c) ==
    [pc |-> "request", content |-> c, saves |-> <<>>, new_id |-> 0,
     response |-> NoResponse]

\* next((save for save in saves if save.get('url') == u), None)
Existing(saves, u) == {i \in 1..Len(saves) : saves[i].url = u}

existing_save(saves, u) ==
    saves[CHOOSE i \in Existing(saves, u) : \A j \in Existing(saves, u) : i <= j]

\* max([save.get('id', 0) for save in saves] + [0]) + 1
NewId(saves) ==
    LET ids == {saves[i].id : i \in 1..Len(saves)} \cup {0}
    IN  (CHOOSE m \in ids : \A n \in ids : n <= m) + 1

At(r, where) == r \in DOMAIN handlers /\ handlers[r].pc = where

Moved(r, where) == [handlers EXCEPT ![r].pc = where]

Responded(r, response) ==
    [handlers EXCEPT ![r].pc = "done", ![r].response = response]

\* a request without a url is answered before the store is touched
UrlMissing(r) ==
    /\ At(r, "request")
    /\ ~handlers[r].content.has_url
    /\ handlers' = Responded(r, UrlRequired)
    /\ UNCHANGED SAVES_FILE
    /\ UNCHANGED walkVars

\* load_saves: os.path.exists(SAVES_FILE)
CheckExists(r) ==
    /\ At(r, "request")
    /\ handlers[r].content.has_url
    /\ handlers' = Moved(r, IF SAVES_FILE.exists THEN "load" ELSE "create")
    /\ UNCHANGED SAVES_FILE
    /\ UNCHANGED walkVars

\* load_saves: save_to_file([]) opens the file for writing
CreateOpen(r) ==
    /\ At(r, "create")
    /\ SAVES_FILE' = Truncated
    /\ handlers' = Moved(r, "create_dump")
    /\ UNCHANGED walkVars

\* load_saves: save_to_file([]) dumps the empty array and closes
CreateDump(r) ==
    /\ At(r, "create_dump")
    /\ SAVES_FILE' = Flushed(SAVES_FILE, <<>>)
    /\ handlers' = Moved(r, "load")
    /\ UNCHANGED walkVars

\* json.load raises on a file that holds no JSON document
LoadFails(r) ==
    /\ At(r, "load")
    /\ ~SAVES_FILE.valid
    /\ handlers' = Responded(r, InternalError)
    /\ UNCHANGED SAVES_FILE
    /\ UNCHANGED walkVars

\* the loaded saves hold the posted url
AlreadySaved(r) ==
    /\ At(r, "load")
    /\ SAVES_FILE.valid
    /\ Existing(SAVES_FILE.saves, handlers[r].content.url) /= {}
    /\ handlers' =
           [Responded(r, AlreadySavedResponse(
                existing_save(SAVES_FILE.saves, handlers[r].content.url).id))
            EXCEPT ![r].saves = SAVES_FILE.saves]
    /\ UNCHANGED SAVES_FILE
    /\ UNCHANGED walkVars

\* the loaded saves lack the posted url: the record is appended to the
\* handler's own list under the next id
AssignId(r) ==
    /\ At(r, "load")
    /\ SAVES_FILE.valid
    /\ Existing(SAVES_FILE.saves, handlers[r].content.url) = {}
    /\ LET new_id == NewId(SAVES_FILE.saves)
       IN  handlers' =
               [handlers EXCEPT
                   ![r].pc = "write",
                   ![r].new_id = new_id,
                   ![r].saves = Append(SAVES_FILE.saves,
                                       Save(new_id, handlers[r].content.url))]
    /\ UNCHANGED SAVES_FILE
    /\ UNCHANGED walkVars

\* save_to_file(saves) opens the file for writing
WriteOpen(r) ==
    /\ At(r, "write")
    /\ SAVES_FILE' = Truncated
    /\ handlers' = Moved(r, "write_dump")
    /\ UNCHANGED walkVars

\* save_to_file(saves) dumps the handler's list, closes, and the route
\* answers with the id it assigned
WriteDump(r) ==
    /\ At(r, "write_dump")
    /\ SAVES_FILE' = Flushed(SAVES_FILE, handlers[r].saves)
    /\ handlers' = Responded(r, SavedResponse(handlers[r].new_id))
    /\ UNCHANGED walkVars

MaxRequests == 2

Requests == 1..MaxRequests

SaveNext ==
    \/ \E r \in Requests : UrlMissing(r)
    \/ \E r \in Requests : CheckExists(r)
    \/ \E r \in Requests : CreateOpen(r)
    \/ \E r \in Requests : CreateDump(r)
    \/ \E r \in Requests : LoadFails(r)
    \/ \E r \in Requests : AlreadySaved(r)
    \/ \E r \in Requests : AssignId(r)
    \/ \E r \in Requests : WriteOpen(r)
    \/ \E r \in Requests : WriteDump(r)

\* what the file holds when the requests arrive: nothing, no record, the
\* first save, or the second save after the first was removed
StoredBefore ==
    {Absent, Dumped(<<>>), Dumped(<<Save(1, 1)>>), Dumped(<<Save(2, 1)>>)}

Posted == {Content(FALSE, 0)} \cup {Content(TRUE, u) : u \in Requests}

\* MaxRequests requests to POST /save arrive together; no parse is running
SaveInit ==
    /\ web = [s \in Sites |-> Unreachable]
    /\ depth = 0
    /\ url = SiteA
    /\ Called
    /\ SAVES_FILE \in StoredBefore
    /\ \E posted \in [Requests -> Posted] :
           handlers = [r \in Requests |-> Handler(posted[r])]

SaveSpec == SaveInit /\ [][SaveNext]_vars

Completed == \A r \in DOMAIN handlers : handlers[r].pc = "done"

DifferentUrls ==
    \A r, q \in DOMAIN handlers :
        (r /= q /\ handlers[r].content.has_url /\ handlers[q].content.has_url)
            => handlers[r].content.url /= handlers[q].content.url

ReportsSuccess(r) == handlers[r].response.message = "Content saved successfully"

InStore(r) ==
    /\ SAVES_FILE.valid
    /\ \E i \in 1..Len(SAVES_FILE.saves) :
           SAVES_FILE.saves[i] =
               Save(handlers[r].response.id, handlers[r].content.url)

\* C11: once concurrent save requests for different URLs have all completed,
\* every request that reported success has its record in the store, and no
\* two of them were given the same id.
C11_ConcurrentSavesKept ==
    (Completed /\ DifferentUrls)
        => /\ \A r \in DOMAIN handlers : ReportsSuccess(r) => InStore(r)
           /\ \A r, q \in DOMAIN handlers :
                  (r /= q /\ ReportsSuccess(r) /\ ReportsSuccess(q))
                      => handlers[r].response.id /= handlers[q].response.id

====
